---- MODULE Spec2Model ----
(***************************************************************************)
(* BeverageStock (src/beverage_stock.py): the stock ledger `Estoque`, the  *)
(* `Produto` entity and the pure calculator `CalculadoraCusto`.            *)
(*                                                                         *)
(* A state is the ledger after a completed call, together with a record of *)
(* that call: its arguments, the value it returned, the exception it       *)
(* raised and the lines it printed.  `antes` and `registrados` are history *)
(* variables (the registry before the call, the objects in the order they  *)
(* were registered, and `anterior`, the call before this one when the two  *)
(* form a pair on one product); no operation reads them.  `pedido` is the  *)
(* calculator call the caller is about to make, with its arguments;        *)
(* `principal` is the example script of the module (its position and its   *)
(* local values); `threads` are callers that run a ledger method           *)
(* concurrently, statement by statement unless `atomico`.                  *)
(***************************************************************************)
EXTENDS Integers, Sequences, FiniteSets, TLC

VARIABLES produtos, chamada, excecao, retorno, stdout, antes, registrados,
          pedido, anterior, principal, threads, atomico, inicial

vars == <<produtos, chamada, excecao, retorno, stdout, antes, registrados,
          pedido, anterior, principal, threads, atomico, inicial>>

\* what lies outside the ledger and the calculator: the example script of
\* the module and the threads of concurrent callers
fora == <<principal, threads, atomico, inicial>>

(***************************************************************************)
(* Bounds of the model.                                                    *)
(***************************************************************************)
MaxProdutos == 2
MaxEstoque == 3
MaxQtd == 2
MaxPonto == 3

TipoBebida == {"CERVEJA", "REFRIGERANTE"}
\* the products a caller creates and registers, any number of times each
Catalogo == {[nome |-> "Brahma", tipo |-> "CERVEJA"],
             [nome |-> "Coca", tipo |-> "REFRIGERANTE"]}
Nomes == {c.nome : c \in Catalogo}
NomeEstoque == "Estoque Principal"

QtdPositiva == 1..MaxQtd
QtdQualquer == (0 - MaxQtd)..MaxQtd
Pontos == (0 - 1)..MaxPonto

(***************************************************************************)
(* Texts: an f-string is kept as its format and the values it interpolates.*)
(***************************************************************************)
Texto(fmt, nome, tipo, n) == [fmt |-> fmt, nome |-> nome, tipo |-> tipo, n |-> n]

FmtAdicionado == "Produto '{nome}' adicionado ao estoque"
FmtEntrada == "Entrada: +{n} unidades de '{nome}'"
FmtSaida == "Saida: -{n} unidades de '{nome}'"
FmtAlerta == "ALERTA: '{nome}' atingiu ponto de pedido!"
FmtNaoEncontrado == "Produto '{nome}' nao encontrado"
FmtInsuficiente == "Estoque insuficiente! Disponivel: {n}"
FmtCustoZero == "Custo de manutencao nao pode ser zero"
FmtRegua == "============"
FmtTitulo == "RELATORIO DE ESTOQUE: {nome}"
FmtNenhum == "Nenhum produto cadastrado."
FmtItem == "* {nome} ({tipo}) - Estoque: {n}"
FmtReguaFim == "============\n"

(***************************************************************************)
(* Exceptions.  Every `raise` of the ledger is a ValueError; the message   *)
(* tells the not-found case from the insufficient-stock case.              *)
(***************************************************************************)
Nenhuma == [classe |-> "None", msg |-> Texto("", "", "", 0)]
ValueError(msg) == [classe |-> "ValueError", msg |-> msg]
OverflowError == [classe |-> "OverflowError", msg |-> Texto("cannot convert float infinity to integer", "", "", 0)]
ZeroDivisionError == [classe |-> "ZeroDivisionError", msg |-> Texto("float division by zero", "", "", 0)]
CeilNaNError == [classe |-> "ValueError", msg |-> Texto("cannot convert float NaN to integer", "", "", 0)]

Nada == [tem |-> FALSE, v |-> 0, b |-> FALSE]
Inteiro(v) == [tem |-> TRUE, v |-> v, b |-> FALSE]
Booleano(b) == [tem |-> TRUE, v |-> 0, b |-> b]

(***************************************************************************)
(* Produto                                                                 *)
(***************************************************************************)
\* Produto.__init__: a new object (identity `id`) with an empty stock.  The
\* three cost fields are stored and never read by any ledger operation;
\* they are not part of the state.
Produto(id, nome, tipo) ==
  [id |-> id, nome |-> nome, tipo |-> tipo, quantidade_estoque |-> 0]

\* Produto.__str__
ProdutoStr(p) == Texto(FmtItem, p.nome, p.tipo, p.quantidade_estoque)

(***************************************************************************)
(* Estoque                                                                 *)
(***************************************************************************)
RECURSIVE BuscarDesde(_, _, _)
BuscarDesde(ps, nome, i) ==
  IF i > Len(ps) THEN 0
  ELSE IF ps[i].nome = nome THEN i
  ELSE BuscarDesde(ps, nome, i + 1)

\* the last product of that name, not the first
BuscarUltimo(ps, nome) ==
  IF \E i \in 1..Len(ps) : ps[i].nome = nome
  THEN CHOOSE i \in 1..Len(ps) :
         ps[i].nome = nome /\ \A j \in (i + 1)..Len(ps) : ps[j].nome # nome
  ELSE 0

\* the loop variable returned after the loop: the last product scanned when
\* none matches
BuscarVazado(ps, nome) ==
  IF BuscarDesde(ps, nome, 1) # 0 THEN BuscarDesde(ps, nome, 1) ELSE Len(ps)

\* Estoque._buscar_produto: the position of the first product of that name,
\* 0 standing for None.
Buscar(ps, nome) == BuscarDesde(ps, nome, 1)

\* the quantity added to every product of the list
SomarTodos(ps, i, quantidade) ==
  [j \in 1..Len(ps) |-> [ps[j] EXCEPT !.quantidade_estoque = @ + quantidade]]

\* `=` written for `+=`
SomarAtribui(ps, i, quantidade) ==
  [ps EXCEPT ![i].quantidade_estoque = quantidade]

\* line 181: produto.quantidade_estoque += quantidade
Somar(ps, i, quantidade) ==
  [ps EXCEPT ![i].quantidade_estoque = @ + quantidade]

\* no test of the stock
SuficienteSemTeste(p, quantidade) == TRUE

\* `>` written for `>=`
SuficienteEstrito(p, quantidade) == p.quantidade_estoque > quantidade

\* the test compares the stock with zero, not with the quantity asked
SuficienteNaoNegativo(p, quantidade) == p.quantidade_estoque >= 0

\* the test is off by one
SuficienteMaisUm(p, quantidade) == p.quantidade_estoque + 1 >= quantidade

\* line 196: produto.quantidade_estoque >= quantidade
Suficiente(p, quantidade) == p.quantidade_estoque >= quantidade

\* the operands of the subtraction exchanged
SubtrairTrocado(ps, i, quantidade) ==
  [ps EXCEPT ![i].quantidade_estoque = quantidade - @]

\* line 197: produto.quantidade_estoque -= quantidade
Subtrair(ps, i, quantidade) ==
  [ps EXCEPT ![i].quantidade_estoque = @ - quantidade]

\* `<` written for `<=`
AtingiuEstrito(p, ponto_pedido) == p.quantidade_estoque < ponto_pedido

\* line 214: produto.quantidade_estoque <= ponto_pedido
Atingiu(p, ponto_pedido) == p.quantidade_estoque <= ponto_pedido

\* insert(0, produto) written for append(produto)
AnexarNoInicio(ps, p) == <<p>> \o ps

\* a product whose name is already in the list is not appended
AnexarSemDuplicada(ps, p) ==
  IF \E i \in 1..Len(ps) : ps[i].nome = p.nome THEN ps ELSE Append(ps, p)

\* line 168: self.produtos.append(produto)
Anexar(ps, p) == Append(ps, p)

\* a missing product counts as one that reached the reorder point
AlertaSemProduto(ps, i, ponto_pedido) == i = 0 \/ Atingiu(ps[i], ponto_pedido)

\* lines 213-214: if produto: if produto.quantidade_estoque <= ponto_pedido
Alerta(ps, i, ponto_pedido) == i # 0 /\ Atingiu(ps[i], ponto_pedido)

\* lines 233-234: one line per product, in list order
Itens(ps) == [i \in 1..Len(ps) |-> ProdutoStr(ps[i])]

Cabecalho == <<Texto(FmtRegua, "", "", 0), Texto(FmtTitulo, NomeEstoque, "", 0),
               Texto(FmtRegua, "", "", 0)>>

\* Estoque.relatorio_estoque: the lines it prints
Relatorio(ps) ==
  IF Len(ps) = 0
  THEN Cabecalho \o <<Texto(FmtNenhum, "", "", 0)>>
  ELSE Cabecalho \o Itens(ps) \o <<Texto(FmtReguaFim, "", "", 0)>>

\* The record of a call: the method, its string arguments, its integer
\* argument (ledger) or its numeric arguments in order (calculator).
Chamada(op, nome, tipo, n) ==
  [op |-> op, nome |-> nome, tipo |-> tipo, n |-> n, args |-> <<>>]

ChamadaCalc(op, args) ==
  [op |-> op, nome |-> "", tipo |-> "", n |-> 0, args |-> args]

\* the example script when it is not running
SemPrincipal ==
  [pc |-> "", recebe |-> 0, recebe_coca |-> 0, vende1 |-> 0, vende2 |-> 0,
   estoque_seguranca |-> 0, ponto_pedido |-> 0]

SemAnterior == [tem |-> FALSE, chamada |-> Chamada("", "", "", 0), antes |-> <<>>]

\* history: what the call (op, nome, n) remembers of the call before it.  It
\* is kept when that call succeeded on the same product name and the two are
\* a stock-out followed by a stock-in of the same quantity, or a stock-in
\* followed by an alert check.
Anterior(op, nome, n) ==
  IF /\ excecao = Nenhuma
     /\ chamada.nome = nome
     /\ \/ chamada.op = "saida_estoque" /\ op = "entrada_estoque" /\ chamada.n = n
        \/ chamada.op = "entrada_estoque" /\ op = "verificar_alertas"
  THEN [tem |-> TRUE, chamada |-> chamada, antes |-> antes]
  ELSE SemAnterior

NoLimite(n) == n >= 0 - MaxEstoque /\ n <= MaxEstoque

(***************************************************************************)
(* Python floats.  A float is a binary floating-point number with a        *)
(* `Precisao`-bit significand (53 in CPython), gradual underflow and an    *)
(* infinity; every arithmetic operation returns the representable value    *)
(* nearest to the exact result, ties to the even significand.  The finite  *)
(* value k / Escala is held as its count k of the smallest positive float  *)
(* (1 / Escala); only non-negative values occur.                           *)
(***************************************************************************)
Precisao == 3
BitsFracao == 3
ExpoenteMax == 4
MaxInteiro == 9

RECURSIVE Pow2(_)
Pow2(n) == IF n = 0 THEN 1 ELSE 2 * Pow2(n - 1)

Escala == Pow2(BitsFracao)
MaxK == (Pow2(Precisao) - 1) * Pow2(ExpoenteMax)

Fin(k) == [cls |-> "fin", k |-> k]
Inf == [cls |-> "inf", k |-> 0]
NaN == [cls |-> "nan", k |-> 0]
\* a Python int among the arguments of a call
PyInt(n) == [cls |-> "int", k |-> n]

\* The spacing of the floats around q smallest-floats: the least power of
\* two s with q \div s < 2^Precisao.
RECURSIVE Passo(_, _)
Passo(q, s) == IF q \div s < Pow2(Precisao) THEN s ELSE Passo(q, 2 * s)

\* Round-to-nearest, ties-to-even, of the exact value num / den (counted in
\* smallest floats); above the largest finite float the result is inf.
Arredondar(num, den) ==
  LET q == num \div den
      s == Passo(q, 1)
      lo == (q \div s) * s
      resto == num - lo * den
      r == IF 2 * resto < s * den THEN lo
           ELSE IF 2 * resto > s * den THEN lo + s
           ELSE IF (lo \div s) % 2 = 0 THEN lo ELSE lo + s
  IN IF r > MaxK THEN Inf ELSE Fin(r)

\* int -> float, as done by `float * int` and `float + int`
IntParaFloat(n) == Arredondar(n * Escala, 1)

\* float * float
Mul(x, y) ==
  IF x.cls = "nan" \/ y.cls = "nan" THEN NaN
  ELSE IF x.cls = "inf" THEN (IF y = Fin(0) THEN NaN ELSE Inf)
  ELSE IF y.cls = "inf" THEN (IF x = Fin(0) THEN NaN ELSE Inf)
  ELSE Arredondar(x.k * y.k, Escala)

\* float + float
Add(x, y) ==
  IF x.cls = "nan" \/ y.cls = "nan" THEN NaN
  ELSE IF x.cls = "inf" \/ y.cls = "inf" THEN Inf
  ELSE Arredondar(x.k + y.k, 1)

\* float / float, y # 0
Div(x, y) ==
  IF x.cls = "nan" \/ y.cls = "nan" THEN NaN
  ELSE IF x.cls = "inf" THEN (IF y.cls = "inf" THEN NaN ELSE Inf)
  ELSE IF y.cls = "inf" THEN Fin(0)
  ELSE Arredondar(x.k * Escala, y.k)

RECURSIVE RaizInteira(_, _)
RaizInteira(n, q) == IF (q + 1) * (q + 1) > n THEN q ELSE RaizInteira(n, q + 1)

\* an operand of mixed arithmetic: an int is converted, a float is kept
ParaFloat(x) == IF x.cls = "int" THEN IntParaFloat(x.k) ELSE x

\* x * y and x + y of two numbers: exact on two ints, float otherwise
MulPy(x, y) ==
  IF x.cls = "int" /\ y.cls = "int" THEN PyInt(x.k * y.k)
  ELSE Mul(ParaFloat(x), ParaFloat(y))

AddPy(x, y) ==
  IF x.cls = "int" /\ y.cls = "int" THEN PyInt(x.k + y.k)
  ELSE Add(ParaFloat(x), ParaFloat(y))

\* math.sqrt: the float nearest to the exact square root
Sqrt(x) ==
  IF x.cls # "fin" THEN x
  ELSE LET n == x.k * Escala
           q == RaizInteira(n, 0)
           s == Passo(q, 1)
           lo == (q \div s) * s
           m == 2 * lo + s
           r == IF 4 * n < m * m THEN lo
                ELSE IF 4 * n > m * m THEN lo + s
                ELSE IF (lo \div s) % 2 = 0 THEN lo ELSE lo + s
       IN IF r > MaxK THEN Inf ELSE Fin(r)

\* math.ceil of a finite float: the least integer >= k / Escala
Ceil(x) == (x.k + Escala - 1) \div Escala

\* math.ceil: an int (an int argument is returned as it is), or the
\* exception it raises on inf and nan
MathCeil(x) ==
  IF x.cls = "int" THEN [exc |-> Nenhuma, ret |-> Inteiro(x.k)]
  ELSE IF x.cls = "inf" THEN [exc |-> OverflowError, ret |-> Nada]
  ELSE IF x.cls = "nan" THEN [exc |-> CeilNaNError, ret |-> Nada]
  ELSE [exc |-> Nenhuma, ret |-> Inteiro(Ceil(x))]

\* every finite float of the format, by its count of smallest floats
Representavel(k) ==
  \E j \in 0..ExpoenteMax : k % Pow2(j) = 0 /\ k \div Pow2(j) < Pow2(Precisao)

Floats == {Fin(k) : k \in {j \in 0..MaxK : Representavel(j)}}
Inteiros == 0..MaxInteiro

(***************************************************************************)
(* CalculadoraCusto                                                        *)
(***************************************************************************)
\* line 95: desvio_padrao * dias_seguranca * demanda_media_diaria
ProdutoSeguranca(desvio_padrao, dias_seguranca, demanda_media_diaria) ==
  Mul(Mul(desvio_padrao, IntParaFloat(dias_seguranca)), demanda_media_diaria)

\* lines 95-96
EstoqueSeguranca(desvio_padrao, dias_seguranca, demanda_media_diaria) ==
  MathCeil(ProdutoSeguranca(desvio_padrao, dias_seguranca, demanda_media_diaria))

\* line 114: (lead_time_dias * demanda_media_diaria) + estoque_seguranca;
\* demanda_media_diaria is a float, or an int as in line 299
SomaPontoPedido(lead_time_dias, demanda_media_diaria, estoque_seguranca) ==
  AddPy(MulPy(PyInt(lead_time_dias), demanda_media_diaria),
        PyInt(estoque_seguranca))

\* lines 114-115
PontoPedido(lead_time_dias, demanda_media_diaria, estoque_seguranca) ==
  MathCeil(SomaPontoPedido(lead_time_dias, demanda_media_diaria, estoque_seguranca))

\* `< 0` written for `== 0`
CustoNegativo(custo_manutencao) ==
  custo_manutencao.cls = "fin" /\ custo_manutencao.k < 0

\* line 135: custo_manutencao == 0
CustoZero(custo_manutencao) == custo_manutencao = Fin(0)

\* `+` written for the second `*` of line 138
LoteEconomicoSoma(demanda_anual, custo_pedido, custo_manutencao) ==
  IF CustoZero(custo_manutencao)
  THEN [exc |-> ValueError(Texto(FmtCustoZero, "", "", 0)), ret |-> Nada]
  ELSE MathCeil(Sqrt(Div(Add(Mul(IntParaFloat(2), demanda_anual), custo_pedido),
                         custo_manutencao)))

\* lines 135-139
LoteEconomico(demanda_anual, custo_pedido, custo_manutencao) ==
  IF CustoZero(custo_manutencao)
  THEN [exc |-> ValueError(Texto(FmtCustoZero, "", "", 0)), ret |-> Nada]
  ELSE IF custo_manutencao = Fin(0)
  THEN [exc |-> ZeroDivisionError, ret |-> Nada]
  ELSE MathCeil(Sqrt(Div(Mul(Mul(IntParaFloat(2), demanda_anual), custo_pedido),
                         custo_manutencao)))

Init ==
  /\ produtos = <<>>
  /\ chamada = Chamada("__init__", "", "", 0)
  /\ excecao = Nenhuma
  /\ retorno = Nada
  /\ stdout = <<>>
  /\ antes = <<>>
  /\ registrados = <<>>
  /\ pedido = ChamadaCalc("", <<>>)
  /\ anterior = SemAnterior
  /\ principal = SemPrincipal
  /\ threads = <<>>
  /\ atomico = TRUE
  /\ inicial = 0

adicionar_produto(nome, tipo) ==
  /\ LET produto == Produto(Len(registrados) + 1, nome, tipo) IN
       /\ produtos' = Anexar(produtos, produto)
       /\ registrados' = Append(registrados, produto.id)
       /\ stdout' = <<Texto(FmtAdicionado, nome, "", 0)>>
  /\ chamada' = Chamada("adicionar_produto", nome, tipo, 0)
  /\ excecao' = Nenhuma
  /\ retorno' = Nada
  /\ antes' = produtos
  /\ anterior' = SemAnterior
  /\ UNCHANGED pedido

entrada_estoque(nome_produto, quantidade) ==
  LET i == Buscar(produtos, nome_produto) IN
  /\ chamada' = Chamada("entrada_estoque", nome_produto, "", quantidade)
  /\ antes' = produtos
  /\ anterior' = Anterior("entrada_estoque", nome_produto, quantidade)
  /\ retorno' = Nada
  /\ UNCHANGED <<registrados, pedido>>
  /\ IF i # 0
     THEN /\ produtos' = Somar(produtos, i, quantidade)
          /\ stdout' = <<Texto(FmtEntrada, nome_produto, "", quantidade)>>
          /\ excecao' = Nenhuma
     ELSE /\ excecao' = ValueError(Texto(FmtNaoEncontrado, nome_produto, "", 0))
          /\ stdout' = <<>>
          /\ UNCHANGED produtos

saida_estoque(nome_produto, quantidade) ==
  LET i == Buscar(produtos, nome_produto) IN
  /\ chamada' = Chamada("saida_estoque", nome_produto, "", quantidade)
  /\ antes' = produtos
  /\ anterior' = Anterior("saida_estoque", nome_produto, quantidade)
  /\ retorno' = Nada
  /\ UNCHANGED <<registrados, pedido>>
  /\ IF i # 0
     THEN IF Suficiente(produtos[i], quantidade)
          THEN /\ produtos' = Subtrair(produtos, i, quantidade)
               /\ stdout' = <<Texto(FmtSaida, nome_produto, "", quantidade)>>
               /\ excecao' = Nenhuma
          ELSE /\ excecao' = ValueError(Texto(FmtInsuficiente, "", "",
                                             produtos[i].quantidade_estoque))
               /\ stdout' = <<>>
               /\ UNCHANGED produtos
     ELSE /\ excecao' = ValueError(Texto(FmtNaoEncontrado, nome_produto, "", 0))
          /\ stdout' = <<>>
          /\ UNCHANGED produtos

verificar_alertas(ponto_pedido, nome_produto) ==
  LET i == Buscar(produtos, nome_produto) IN
  /\ chamada' = Chamada("verificar_alertas", nome_produto, "", ponto_pedido)
  /\ antes' = produtos
  /\ anterior' = Anterior("verificar_alertas", nome_produto, ponto_pedido)
  /\ excecao' = Nenhuma
  /\ UNCHANGED <<produtos, registrados, pedido>>
  /\ IF Alerta(produtos, i, ponto_pedido)
     THEN /\ stdout' = <<Texto(FmtAlerta, nome_produto, "", 0)>>
          /\ retorno' = Booleano(TRUE)
     ELSE /\ stdout' = <<>>
          /\ retorno' = Booleano(FALSE)

relatorio_estoque ==
  /\ chamada' = Chamada("relatorio_estoque", "", "", 0)
  /\ antes' = produtos
  /\ anterior' = SemAnterior
  /\ excecao' = Nenhuma
  /\ retorno' = Nada
  /\ stdout' = Relatorio(produtos)
  /\ UNCHANGED <<produtos, registrados, pedido>>

\* The bounds of the exploration: the stock a call would leave stays within
\* MaxEstoque of zero.
CabeEntrada(nome, q) ==
  LET i == Buscar(produtos, nome) IN
    i # 0 => NoLimite(produtos[i].quantidade_estoque + q)

CabeSaida(nome, q) ==
  LET i == Buscar(produtos, nome) IN
    (i # 0 /\ Suficiente(produtos[i], q))
      => NoLimite(produtos[i].quantidade_estoque - q)

\* The ledger driven by a caller that passes quantities from Q.
Ledger(Q) ==
  \/ \E c \in Catalogo :
       /\ Len(produtos) < MaxProdutos
       /\ adicionar_produto(c.nome, c.tipo)
       /\ UNCHANGED fora
  \/ \E nome \in Nomes, q \in Q :
       CabeEntrada(nome, q) /\ entrada_estoque(nome, q) /\ UNCHANGED fora
  \/ \E nome \in Nomes, q \in Q :
       CabeSaida(nome, q) /\ saida_estoque(nome, q) /\ UNCHANGED fora
  \/ \E nome \in Nomes, ponto \in Pontos :
       verificar_alertas(ponto, nome) /\ UNCHANGED fora
  \/ relatorio_estoque /\ UNCHANGED fora

Next == Ledger(QtdPositiva)

Spec == Init /\ [][Next]_vars

NextQualquer == Ledger(QtdQualquer)

SpecQualquer == Init /\ [][NextQualquer]_vars

\* A call of a static method of the calculator: no ledger is involved.
Calculo(op, r) ==
  /\ pedido.op = op
  /\ chamada.op = "__init__"
  /\ chamada' = pedido
  /\ excecao' = r.exc
  /\ retorno' = r.ret
  /\ stdout' = <<>>
  /\ antes' = produtos
  /\ anterior' = SemAnterior
  /\ UNCHANGED <<produtos, registrados, pedido>>

calcular_estoque_seguranca ==
  Calculo("calcular_estoque_seguranca",
          EstoqueSeguranca(pedido.args[1], pedido.args[2].k, pedido.args[3]))

determinar_ponto_pedido ==
  Calculo("determinar_ponto_pedido",
          PontoPedido(pedido.args[1].k, pedido.args[2], pedido.args[3].k))

calcular_lote_economico ==
  Calculo("calcular_lote_economico",
          LoteEconomico(pedido.args[1], pedido.args[2], pedido.args[3]))

\* The calls a caller can make: floats and ints of the declared types, in
\* the documented (non-negative) domain.
InitCalc ==
  /\ produtos = <<>>
  /\ chamada = Chamada("__init__", "", "", 0)
  /\ excecao = Nenhuma
  /\ retorno = Nada
  /\ stdout = <<>>
  /\ antes = <<>>
  /\ registrados = <<>>
  /\ anterior = SemAnterior
  /\ principal = SemPrincipal
  /\ threads = <<>>
  /\ atomico = TRUE
  /\ inicial = 0
  /\ \/ \E d \in Floats, n \in Inteiros, m \in Floats :
          pedido = ChamadaCalc("calcular_estoque_seguranca", <<d, PyInt(n), m>>)
     \/ \E l \in Inteiros, m \in Floats, e \in Inteiros :
          pedido = ChamadaCalc("determinar_ponto_pedido", <<PyInt(l), m, PyInt(e)>>)
     \/ \E d \in Floats, c \in Floats, h \in Floats :
          pedido = ChamadaCalc("calcular_lote_economico", <<d, c, h>>)

NextCalc ==
  \/ calcular_estoque_seguranca /\ UNCHANGED fora
  \/ determinar_ponto_pedido /\ UNCHANGED fora
  \/ calcular_lote_economico /\ UNCHANGED fora

SpecCalc == InitCalc /\ [][NextCalc]_vars

(***************************************************************************)
(* The example script (lines 279-320).  Its literals are the reference     *)
(* values below; a run takes each quantity from the reference value or     *)
(* from another literal of the script.  Lines 290 and 304 call the         *)
(* calculator with arguments (0.2, 18000) that the reduced float format    *)
(* does not hold: the value line 290 returns is a value of the run, and    *)
(* line 304, whose result is only printed, is not run.  An exception is    *)
(* not caught and ends the script.                                         *)
(***************************************************************************)
Recebe == 500
RecebeCoca == 300
Venda1 == 250
Venda2 == 180
LeadTimeDias == 5
DemandaMediaDiaria == 50
SegurancaRef == 70

Avancar(pc) ==
  principal' = [principal EXCEPT !.pc = IF excecao' = Nenhuma THEN pc ELSE "erro"]

Linha280 ==
  /\ principal.pc = "280"
  /\ adicionar_produto("Brahma", "CERVEJA")
  /\ Avancar("281")
  /\ UNCHANGED <<threads, atomico, inicial>>

Linha281 ==
  /\ principal.pc = "281"
  /\ adicionar_produto("Coca", "REFRIGERANTE")
  /\ Avancar("284")
  /\ UNCHANGED <<threads, atomico, inicial>>

Linha284 ==
  /\ principal.pc = "284"
  /\ entrada_estoque("Brahma", principal.recebe)
  /\ Avancar("285")
  /\ UNCHANGED <<threads, atomico, inicial>>

Linha285 ==
  /\ principal.pc = "285"
  /\ entrada_estoque("Coca", principal.recebe_coca)
  /\ Avancar("297")
  /\ UNCHANGED <<threads, atomico, inicial>>

\* lines 297-301: ponto_pedido = determinar_ponto_pedido(5, 50, estoque_seguranca)
Linha297 ==
  LET r == PontoPedido(LeadTimeDias, PyInt(DemandaMediaDiaria),
                       principal.estoque_seguranca)
  IN /\ principal.pc = "297"
     /\ chamada' = ChamadaCalc("determinar_ponto_pedido",
                               <<PyInt(LeadTimeDias), PyInt(DemandaMediaDiaria),
                                 PyInt(principal.estoque_seguranca)>>)
     /\ excecao' = r.exc
     /\ retorno' = r.ret
     /\ stdout' = <<>>
     /\ antes' = produtos
     /\ anterior' = SemAnterior
     /\ principal' = [principal EXCEPT
                        !.pc = IF r.exc = Nenhuma THEN "313" ELSE "erro",
                        !.ponto_pedido = r.ret.v]
     /\ UNCHANGED <<produtos, registrados, pedido, threads, atomico, inicial>>

Linha313 ==
  /\ principal.pc = "313"
  /\ saida_estoque("Brahma", principal.vende1)
  /\ Avancar("314")
  /\ UNCHANGED <<threads, atomico, inicial>>

Linha314 ==
  /\ principal.pc = "314"
  /\ saida_estoque("Brahma", principal.vende2)
  /\ Avancar("317")
  /\ UNCHANGED <<threads, atomico, inicial>>

Linha317 ==
  /\ principal.pc = "317"
  /\ verificar_alertas(principal.ponto_pedido, "Brahma")
  /\ Avancar("320")
  /\ UNCHANGED <<threads, atomico, inicial>>

Linha320 ==
  /\ principal.pc = "320"
  /\ relatorio_estoque
  /\ Avancar("fim")
  /\ UNCHANGED <<threads, atomico, inicial>>

InitPrincipal ==
  /\ produtos = <<>>
  /\ chamada = Chamada("__init__", "", "", 0)
  /\ excecao = Nenhuma
  /\ retorno = Nada
  /\ stdout = <<>>
  /\ antes = <<>>
  /\ registrados = <<>>
  /\ pedido = ChamadaCalc("", <<>>)
  /\ anterior = SemAnterior
  /\ threads = <<>>
  /\ atomico = TRUE
  /\ inicial = 0
  /\ \E r \in {Recebe, RecebeCoca}, rc \in {RecebeCoca, Venda2},
        v1 \in {Venda1, Venda2}, v2 \in {Venda2, Venda1},
        es \in {SegurancaRef, 0} :
       principal = [pc |-> "280", recebe |-> r, recebe_coca |-> rc,
                    vende1 |-> v1, vende2 |-> v2,
                    estoque_seguranca |-> es, ponto_pedido |-> 0]

NextPrincipal ==
  \/ Linha280
  \/ Linha281
  \/ Linha284
  \/ Linha285
  \/ Linha297
  \/ Linha313
  \/ Linha314
  \/ Linha317
  \/ Linha320

SpecPrincipal == InitPrincipal /\ [][NextPrincipal]_vars

(***************************************************************************)
(* Concurrent callers.  The ledger holds one product with the stock        *)
(* `inicial`; each thread of `Threads` makes one call of entrada_estoque   *)
(* or saida_estoque.  The methods take no lock, so another thread may run  *)
(* between any two statements of a call, and between the read and the      *)
(* write of `+=` and `-=`: a thread keeps the product it found and the     *)
(* stock it read in its record.  When `atomico`, the caller serialises the *)
(* calls and each one runs as in the sequential ledger.                    *)
(***************************************************************************)
Threads == {1, 2}

Movimento == {"entrada_estoque", "saida_estoque"}

Thread(op, nome, quantidade) ==
  [pc |-> "inicio", op |-> op, nome |-> nome, quantidade |-> quantidade,
   produto |-> 0, lido |-> 0, exc |-> Nenhuma]

Terminar(t, exc) ==
  threads' = [threads EXCEPT ![t].pc = "fim", ![t].exc = exc]

Passar(t, pc) == threads' = [threads EXCEPT ![t].pc = pc]

\* the variables of the last sequential call, which a statement of a thread
\* leaves alone
DaChamada == <<chamada, excecao, retorno, antes, registrados, pedido, anterior>>

\* lines 179 and 194: produto = self._buscar_produto(nome_produto), and the
\* `if produto:` after it with its else branch (lines 184 and 202)
BuscarThread(t) ==
  LET i == Buscar(produtos, threads[t].nome) IN
  /\ ~atomico
  /\ threads[t].pc = "inicio"
  /\ IF i # 0
     THEN threads' = [threads EXCEPT
                        ![t].produto = i,
                        ![t].pc = IF threads[t].op = "saida_estoque"
                                  THEN "196" ELSE "181"]
     ELSE Terminar(t, ValueError(Texto(FmtNaoEncontrado, threads[t].nome, "", 0)))
  /\ UNCHANGED <<produtos, stdout, principal, atomico, inicial>>
  /\ UNCHANGED DaChamada

\* line 196: if produto.quantidade_estoque >= quantidade
Testar196(t) ==
  /\ ~atomico
  /\ threads[t].pc = "196"
  /\ IF Suficiente(produtos[threads[t].produto], threads[t].quantidade)
     THEN Passar(t, "197")
     ELSE Passar(t, "200")
  /\ UNCHANGED <<produtos, stdout, principal, atomico, inicial>>
  /\ UNCHANGED DaChamada

\* lines 181 and 197: the read of produto.quantidade_estoque by `+=` or `-=`
Ler(t) ==
  /\ ~atomico
  /\ threads[t].pc \in {"181", "197"}
  /\ threads' = [threads EXCEPT
                   ![t].lido = produtos[threads[t].produto].quantidade_estoque,
                   ![t].pc = IF threads[t].pc = "181" THEN "181w" ELSE "197w"]
  /\ UNCHANGED <<produtos, stdout, principal, atomico, inicial>>
  /\ UNCHANGED DaChamada

\* the list with the stock of product i as the thread read it
ComLido(t) ==
  [produtos EXCEPT ![threads[t].produto].quantidade_estoque = threads[t].lido]

\* line 181: the write of `+=`, and the print of line 182
Escrever181(t) ==
  /\ ~atomico
  /\ threads[t].pc = "181w"
  /\ produtos' = Somar(ComLido(t), threads[t].produto, threads[t].quantidade)
  /\ stdout' = <<Texto(FmtEntrada, threads[t].nome, "", threads[t].quantidade)>>
  /\ Terminar(t, Nenhuma)
  /\ UNCHANGED <<principal, atomico, inicial>>
  /\ UNCHANGED DaChamada

\* line 197: the write of `-=`, and the print of line 198
Escrever197(t) ==
  /\ ~atomico
  /\ threads[t].pc = "197w"
  /\ produtos' = Subtrair(ComLido(t), threads[t].produto, threads[t].quantidade)
  /\ stdout' = <<Texto(FmtSaida, threads[t].nome, "", threads[t].quantidade)>>
  /\ Terminar(t, Nenhuma)
  /\ UNCHANGED <<principal, atomico, inicial>>
  /\ UNCHANGED DaChamada

\* line 200: the error reports the stock as it is when the message is built
Levantar200(t) ==
  /\ ~atomico
  /\ threads[t].pc = "200"
  /\ Terminar(t, ValueError(Texto(FmtInsuficiente, "", "",
                   produtos[threads[t].produto].quantidade_estoque)))
  /\ UNCHANGED <<produtos, stdout, principal, atomico, inicial>>
  /\ UNCHANGED DaChamada

\* a whole call, no other thread running during it
ChamarAtomico(t) ==
  /\ atomico
  /\ threads[t].pc = "inicio"
  /\ \/ /\ threads[t].op = "entrada_estoque"
        /\ entrada_estoque(threads[t].nome, threads[t].quantidade)
     \/ /\ threads[t].op = "saida_estoque"
        /\ saida_estoque(threads[t].nome, threads[t].quantidade)
  /\ Terminar(t, excecao')
  /\ UNCHANGED <<principal, atomico, inicial>>

\* the ledger after adicionar_produto and one entrada_estoque of `inicial`
InitConcorrente ==
  /\ \E c \in Catalogo, s \in 1..MaxEstoque :
       /\ inicial = s
       /\ antes = <<Produto(1, c.nome, c.tipo)>>
       /\ produtos = Somar(antes, 1, s)
       /\ chamada = Chamada("entrada_estoque", c.nome, "", s)
       /\ stdout = <<Texto(FmtEntrada, c.nome, "", s)>>
  /\ excecao = Nenhuma
  /\ retorno = Nada
  /\ registrados = <<1>>
  /\ pedido = ChamadaCalc("", <<>>)
  /\ anterior = SemAnterior
  /\ principal = SemPrincipal
  /\ atomico \in BOOLEAN
  /\ threads \in [Threads -> {Thread(op, nome, q) :
                                op \in Movimento, nome \in Nomes,
                                q \in QtdPositiva}]

NextConcorrente ==
  \E t \in Threads :
    \/ BuscarThread(t)
    \/ Testar196(t)
    \/ Ler(t)
    \/ Escrever181(t)
    \/ Escrever197(t)
    \/ Levantar200(t)
    \/ ChamarAtomico(t)

SpecConcorrente == InitConcorrente /\ [][NextConcorrente]_vars

(***************************************************************************)
(* Properties.  They speak of the registry through the two definitions     *)
(* below, not through the lookup of the ledger.                            *)
(***************************************************************************)
Registrado(ps, nome) == \E i \in 1..Len(ps) : ps[i].nome = nome

Primeiro(ps, nome) ==
  CHOOSE i \in 1..Len(ps) :
    ps[i].nome = nome /\ \A j \in 1..(i - 1) : ps[j].nome # nome

EstoqueDe(ps, nome) == ps[Primeiro(ps, nome)].quantidade_estoque

ProdutoDeId(ps, id) == CHOOSE p \in {ps[i] : i \in 1..Len(ps)} : p.id = id

\* The error kinds of the specification, as the code raises them.
NotFound(e, nome) == e = ValueError(Texto(FmtNaoEncontrado, nome, "", 0))
InsufficientStock(e, disponivel) ==
  e = ValueError(Texto(FmtInsuficiente, "", "", disponivel))
InvalidArgument(e) ==
  e.classe # "None" /\ e.msg.fmt \notin {FmtNaoEncontrado, FmtInsuficiente}

\* C1: with positive quantities only, the stock of every registered product
\* is never negative, whatever calls succeeded or failed before.
C1_EstoqueNaoNegativo ==
  \A i \in 1..Len(produtos) : produtos[i].quantidade_estoque >= 0

\* a stock-out that took the whole stock of a product and left 0
C1_Witness ==
  /\ chamada.op = "saida_estoque"
  /\ excecao = Nenhuma
  /\ Registrado(produtos, chamada.nome)
  /\ EstoqueDe(antes, chamada.nome) = chamada.n
  /\ EstoqueDe(produtos, chamada.nome) = 0

\* C2: a stock-out of more than the stock of a registered product raises
\* the insufficient-stock error, which reports the stock, and changes the
\* stock of no product.
C2_InsuficienteNaoAltera ==
  [][(/\ chamada'.op = "saida_estoque"
      /\ Registrado(produtos, chamada'.nome)
      /\ chamada'.n > EstoqueDe(produtos, chamada'.nome))
     => (/\ InsufficientStock(excecao', EstoqueDe(produtos, chamada'.nome))
         /\ produtos' = produtos)]_vars

\* a refused stock-out of one more than a positive stock, a second product
\* being registered
C2_Witness ==
  /\ chamada.op = "saida_estoque"
  /\ Registrado(antes, chamada.nome)
  /\ EstoqueDe(antes, chamada.nome) > 0
  /\ chamada.n = EstoqueDe(antes, chamada.nome) + 1
  /\ InsufficientStock(excecao, EstoqueDe(antes, chamada.nome))
  /\ Len(produtos) = 2
  /\ produtos = antes

\* C3: a stock-in or a stock-out naming no registered product raises the
\* not-found error for every quantity, positive or not, and changes neither
\* the registry nor any stock.
C3_NaoEncontrado ==
  [][(chamada'.op \in Movimento /\ ~Registrado(produtos, chamada'.nome))
     => (/\ NotFound(excecao', chamada'.nome)
         /\ produtos' = produtos
         /\ registrados' = registrados)]_vars

\* a stock-in of a negative quantity on a name that is not registered, in a
\* registry that holds another product
C3_Witness ==
  /\ chamada.op = "entrada_estoque"
  /\ chamada.n < 0
  /\ Len(antes) > 0
  /\ ~Registrado(antes, chamada.nome)
  /\ NotFound(excecao, chamada.nome)
  /\ produtos = antes

\* C4: a stock-in or stock-out of a quantity <= 0 on a registered product is
\* rejected with an invalid-argument error and leaves its stock unchanged.
C4_QuantidadeInvalidaRejeitada ==
  [][(/\ chamada'.op \in Movimento
      /\ chamada'.n <= 0
      /\ Registrado(produtos, chamada'.nome))
     => (InvalidArgument(excecao') /\ produtos' = produtos)]_vars

\* C5: a successful stock-out of q > 0 followed at once by a stock-in of q on
\* the same name succeeds and gives back the registry as it was before the
\* stock-out, every product with its stock.
C5_IdaEVolta ==
  (/\ anterior.tem
   /\ anterior.chamada.op = "saida_estoque"
   /\ chamada.op = "entrada_estoque"
   /\ chamada.n > 0)
  => (excecao = Nenhuma /\ produtos = anterior.antes)

\* the round trip on a product that held more than q, next to another product
C5_Witness ==
  /\ anterior.tem
  /\ anterior.chamada.op = "saida_estoque"
  /\ chamada.op = "entrada_estoque"
  /\ chamada.n > 0
  /\ Len(produtos) = 2
  /\ EstoqueDe(produtos, chamada.nome) > chamada.n
  /\ EstoqueDe(antes, chamada.nome) = EstoqueDe(produtos, chamada.nome) - chamada.n
  /\ produtos = anterior.antes

\* C6: on a registered product the alert check returns true exactly when
\* the stock at the time of the call is <= the reorder point (true when
\* equal); so it returns false right after a stock-in that raised the stock
\* above the reorder point.
C6_AlertaSseAtingiu ==
  (chamada.op = "verificar_alertas" /\ Registrado(antes, chamada.nome))
  => retorno = Booleano(EstoqueDe(antes, chamada.nome) <= chamada.n)

\* the check right after a stock-in that took the stock from the reorder
\* point, or below it, to above it: false
C6_Witness ==
  /\ chamada.op = "verificar_alertas"
  /\ anterior.tem
  /\ anterior.chamada.op = "entrada_estoque"
  /\ EstoqueDe(anterior.antes, chamada.nome) <= chamada.n
  /\ EstoqueDe(antes, chamada.nome) > chamada.n
  /\ retorno = Booleano(FALSE)

ItensImpressos == SelectSeq(stdout, LAMBDA t : t.fmt = FmtItem)
NenhumImpresso == SelectSeq(stdout, LAMBDA t : t.fmt = FmtNenhum)

\* C7: the report of a registry that is not empty has one line for each
\* registered product, in the order of registration, with its name, its
\* type and its present stock, and no "no products" line; the report of an
\* empty registry has the "no products" line and no product line.
C7_Relatorio ==
  chamada.op = "relatorio_estoque" =>
    IF Len(registrados) = 0
    THEN Len(NenhumImpresso) = 1 /\ Len(ItensImpressos) = 0
    ELSE /\ Len(NenhumImpresso) = 0
         /\ Len(ItensImpressos) = Len(registrados)
         /\ \A i \in 1..Len(registrados) :
              LET p == ProdutoDeId(produtos, registrados[i]) IN
                ItensImpressos[i] =
                  Texto(FmtItem, p.nome, p.tipo, p.quantidade_estoque)

\* the report of two products of different names and different stocks
C7_Witness ==
  /\ chamada.op = "relatorio_estoque"
  /\ Len(produtos) = 2
  /\ produtos[1].nome # produtos[2].nome
  /\ produtos[1].quantidade_estoque > produtos[2].quantidade_estoque
  /\ produtos[2].quantidade_estoque > 0
  /\ Len(ItensImpressos) = 2

\* C8: the economic order quantity with a holding cost of zero raises the
\* ValueError of line 136 for every demand and order cost, zero included,
\* and returns nothing.
C8_CustoZeroFalha ==
  (chamada.op = "calcular_lote_economico" /\ chamada.args[3] = Fin(0))
  => (excecao = ValueError(Texto(FmtCustoZero, "", "", 0)) /\ retorno = Nada)

\* the call with demand, order cost and holding cost all zero
C8_Witness ==
  /\ chamada.op = "calcular_lote_economico"
  /\ chamada.args = <<Fin(0), Fin(0), Fin(0)>>
  /\ excecao.classe = "ValueError"
  /\ retorno = Nada

\* C9: the reorder point is the ceiling of the exact value of
\* lead time * demand + safety stock, and so is >= the safety stock.
C9_PontoPedidoTeto ==
  chamada.op = "determinar_ponto_pedido" =>
    LET l == chamada.args[1].k
        d == chamada.args[2].k
        e == chamada.args[3].k
    IN /\ excecao = Nenhuma
       /\ retorno = Inteiro((l * d + e * Escala + Escala - 1) \div Escala)
       /\ retorno.v >= e

\* C10: the safety stock is a non-negative integer r, the ceiling of the
\* exact product p of the three arguments: r >= p and r - 1 < p.
C10_EstoqueSegurancaTeto ==
  chamada.op = "calcular_estoque_seguranca" =>
    LET p == chamada.args[1].k * chamada.args[2].k * chamada.args[3].k
        r == retorno.v
    IN /\ excecao = Nenhuma
       /\ retorno.tem
       /\ r >= 0
       /\ r * Escala * Escala >= p
       /\ (r - 1) * Escala * Escala < p

\* C11: with an annual demand of zero the economic order quantity is 0, for
\* every finite order cost >= 0 and every finite holding cost > 0.
C11_DemandaZero ==
  (/\ chamada.op = "calcular_lote_economico"
   /\ chamada.args[1] = Fin(0)
   /\ chamada.args[3] # Fin(0))
  => (excecao = Nenhuma /\ retorno = Inteiro(0))

\* zero demand with the largest order cost and the smallest holding cost
C11_Witness ==
  /\ chamada.op = "calcular_lote_economico"
  /\ chamada.args = <<Fin(0), Fin(MaxK), Fin(1)>>
  /\ retorno = Inteiro(0)

\* the run of the example script with the literals of the script
Referencia ==
  /\ principal.recebe = Recebe
  /\ principal.recebe_coca = RecebeCoca
  /\ principal.vende1 = Venda1
  /\ principal.vende2 = Venda2
  /\ principal.estoque_seguranca = SegurancaRef

\* C12: in the reference run every call succeeds; the stock of the first
\* product is 500 after the receipt, 250 and then 70 after the two issues;
\* the reorder point computed from (5, 50, 70) is 320; the alert check on
\* 320 returns true; and the second product holds the 300 it received.
C12_Cenario ==
  Referencia =>
    /\ principal.pc # "erro"
    /\ principal.pc \in {"285", "297", "313"}
         => EstoqueDe(produtos, "Brahma") = 500
    /\ principal.pc = "314" => EstoqueDe(produtos, "Brahma") = 250
    /\ principal.pc \in {"313", "314", "317", "320", "fim"}
         => principal.ponto_pedido = 320
    /\ principal.pc \in {"317", "320", "fim"}
         => /\ EstoqueDe(produtos, "Brahma") = 70
            /\ EstoqueDe(produtos, "Coca") = 300
    /\ principal.pc = "320"
         => /\ retorno = Booleano(TRUE)
            /\ stdout = <<Texto(FmtAlerta, "Brahma", "", 0)>>

\* the reference run just after the alert check
C12_Witness ==
  /\ Referencia
  /\ principal.pc = "320"
  /\ chamada = Chamada("verificar_alertas", "Brahma", "", 320)
  /\ retorno = Booleano(TRUE)
  /\ EstoqueDe(produtos, "Brahma") = 70
  /\ EstoqueDe(produtos, "Coca") = 300

\* C13: on a registered product holding s, a stock-in of q > 0 succeeds and
\* leaves s + q; a stock-out of q > 0 succeeds exactly when q <= s and then
\* leaves s - q, so a stock-out of the whole stock succeeds and leaves 0.
C13_EntradaESaida ==
  [][(Registrado(produtos, chamada'.nome) /\ chamada'.n > 0)
     => LET s == EstoqueDe(produtos, chamada'.nome)
            q == chamada'.n
        IN /\ chamada'.op = "entrada_estoque"
                => /\ excecao' = Nenhuma
                   /\ EstoqueDe(produtos', chamada'.nome) = s + q
           /\ chamada'.op = "saida_estoque"
                => /\ excecao' = Nenhuma <=> q <= s
                   /\ q <= s => EstoqueDe(produtos', chamada'.nome) = s - q
                   /\ q = s => EstoqueDe(produtos', chamada'.nome) = 0]_vars

\* a stock-out of the largest quantity, which was the whole stock
C13_Witness ==
  /\ chamada.op = "saida_estoque"
  /\ chamada.n = MaxQtd
  /\ Registrado(antes, chamada.nome)
  /\ EstoqueDe(antes, chamada.nome) = MaxQtd
  /\ excecao = Nenhuma
  /\ EstoqueDe(produtos, chamada.nome) = 0

\* two products are registered under the name
Duplicado(ps, nome) ==
  \E i, j \in 1..Len(ps) : i < j /\ ps[i].nome = nome /\ ps[j].nome = nome

\* a product registered after another of the same name
Posterior(ps, j) == \E i \in 1..(j - 1) : ps[i].nome = ps[j].nome

\* C14: when two products are registered under one name, a stock-in, a
\* stock-out and an alert check on that name read and change only the one
\* registered first: the stock-in adds to it, the stock-out is decided on
\* its stock and reports it when insufficient, whatever the later product
\* holds, and the alert check compares its stock; the stock of a product
\* registered after another of its name is changed by no operation.
C14_PrimeiroVence ==
  [][/\ \A j \in 1..Len(produtos) :
          Posterior(produtos, j)
            => produtos'[j].quantidade_estoque = produtos[j].quantidade_estoque
     /\ Duplicado(produtos, chamada'.nome)
          => LET s == EstoqueDe(produtos, chamada'.nome)
                 q == chamada'.n
             IN /\ chamada'.op = "entrada_estoque"
                     => EstoqueDe(produtos', chamada'.nome) = s + q
                /\ chamada'.op = "saida_estoque"
                     => IF s >= q
                        THEN /\ excecao' = Nenhuma
                             /\ EstoqueDe(produtos', chamada'.nome) = s - q
                        ELSE /\ InsufficientStock(excecao', s)
                             /\ produtos' = produtos
                /\ chamada'.op = "verificar_alertas"
                     => retorno' = Booleano(s <= q)]_vars

\* a stock-out refused on the stock of the first of two products of one
\* name, the second one holding at least the quantity asked
C14_Witness ==
  /\ chamada.op = "saida_estoque"
  /\ Len(antes) = 2
  /\ antes[1].nome = chamada.nome
  /\ antes[2].nome = chamada.nome
  /\ antes[1].quantidade_estoque < chamada.n
  /\ antes[2].quantidade_estoque >= chamada.n
  /\ InsufficientStock(excecao, antes[1].quantidade_estoque)
  /\ produtos = antes

\* C15: an alert check raises nothing and changes neither the registry nor
\* any stock, for every name and reorder point; on a name that is not
\* registered it returns False.
C15_AlertaNaoFalha ==
  [][chamada'.op = "verificar_alertas"
     => /\ excecao' = Nenhuma
        /\ produtos' = produtos
        /\ registrados' = registrados
        /\ ~Registrado(produtos, chamada'.nome)
             => (retorno' = Booleano(FALSE) /\ stdout' = <<>>)]_vars

\* an alert check, with the largest reorder point, on a name that is not
\* registered while another product is
C15_Witness ==
  /\ chamada.op = "verificar_alertas"
  /\ chamada.n = MaxPonto
  /\ Len(produtos) > 0
  /\ ~Registrado(produtos, chamada.nome)
  /\ excecao = Nenhuma
  /\ retorno = Booleano(FALSE)
  /\ produtos = antes

NomesDistintos(ps) ==
  \A i, j \in 1..Len(ps) : ps[i].nome = ps[j].nome => i = j

\* the products of the list without their stocks, in list order
Identidades(ps) ==
  [i \in 1..Len(ps) |-> [id |-> ps[i].id, nome |-> ps[i].nome, tipo |-> ps[i].tipo]]

\* C16: the names being distinct, a stock-in or a stock-out on one name,
\* whether it succeeds or fails, changes the stock of no product of another
\* name and leaves the products of the registry and their order as they were.
C16_SoOProduto ==
  [][(chamada'.op \in Movimento /\ NomesDistintos(produtos))
     => /\ Identidades(produtos') = Identidades(produtos)
        /\ registrados' = registrados
        /\ \A i \in 1..Len(produtos) :
             produtos[i].nome # chamada'.nome => produtos'[i] = produtos[i]]_vars

\* a stock-in or stock-out that changed the stock of one of two products of
\* distinct names, the other one holding a stock
C16_Witness ==
  /\ chamada.op \in Movimento
  /\ excecao = Nenhuma
  /\ Len(produtos) = 2
  /\ NomesDistintos(produtos)
  /\ \E i, j \in 1..2 :
       /\ produtos[i].nome = chamada.nome
       /\ produtos[i].quantidade_estoque # antes[i].quantidade_estoque
       /\ produtos[j].nome # chamada.nome
       /\ produtos[j].quantidade_estoque # 0
       /\ produtos[j] = antes[j]

\* C17: registering a product always succeeds, puts it at the end of the
\* registry, which grows by exactly one, and changes no stock; no operation
\* removes or reorders products: the products of the registry before a step
\* are a prefix of those after it, in registration order.
C17_SoAcrescenta ==
  [][/\ Len(produtos) <= Len(produtos')
     /\ SubSeq(Identidades(produtos'), 1, Len(produtos)) = Identidades(produtos)
     /\ [i \in 1..Len(produtos') |-> produtos'[i].id] = registrados'
     /\ chamada'.op = "adicionar_produto"
          => /\ excecao' = Nenhuma
             /\ Len(produtos') = Len(produtos) + 1
             /\ produtos'[Len(produtos')].nome = chamada'.nome
             /\ produtos'[Len(produtos')].quantidade_estoque = 0
             /\ SubSeq(produtos', 1, Len(produtos)) = produtos
     /\ chamada'.op # "adicionar_produto" => Len(produtos') = Len(produtos)]_vars

\* a second product of the same name registered after the first received
\* stock
C17_Witness ==
  /\ chamada.op = "adicionar_produto"
  /\ Len(antes) = 1
  /\ Len(produtos) = 2
  /\ antes[1].quantidade_estoque > 0
  /\ produtos[1] = antes[1]
  /\ produtos[2].nome = produtos[1].nome
  /\ produtos[2].id # produtos[1].id
  /\ produtos[2].quantidade_estoque = 0

\* the call of thread t returned without raising
Sucesso(t) == threads[t].pc = "fim" /\ threads[t].exc = Nenhuma

\* what the call of thread t, if it succeeded, adds to the stock
Efeito(t) ==
  IF ~Sucesso(t) THEN 0
  ELSE IF threads[t].op = "entrada_estoque" THEN threads[t].quantidade
  ELSE 0 - threads[t].quantidade

\* two stock-outs on the product both succeeded although its stock covered
\* each of them but not the two together
AmbasSaem ==
  /\ \A t \in Threads :
       /\ threads[t].op = "saida_estoque"
       /\ threads[t].nome = produtos[1].nome
       /\ threads[t].quantidade <= inicial
       /\ Sucesso(t)
  /\ threads[1].quantidade + threads[2].quantidade > inicial

\* C18: two stock-outs on one product that both succeed although the stock
\* covered only one of them happen only when the calls interleave; when each
\* call runs atomically the stock is never negative and, once both calls
\* returned, it is the initial stock changed by every call that succeeded.
C18_SoIntercaladas ==
  /\ AmbasSaem => ~atomico
  /\ atomico
       => /\ produtos[1].quantidade_estoque >= 0
          /\ (\A t \in Threads : threads[t].pc = "fim")
               => produtos[1].quantidade_estoque
                    = inicial + Efeito(1) + Efeito(2)

\* both stock-outs passed the test of line 196 before either wrote, and the
\* stock is negative
C18_Witness ==
  /\ AmbasSaem
  /\ produtos[1].quantidade_estoque < 0

====
